---- MODULE Spec2Model ----
(***************************************************************************)
(* The course tools of canvas-mcp (src/tools/courses.py): list_courses,    *)
(* get_course_details and get_course_content_overview, the two identifier  *)
(* caches they share, and the cooperative tasks that run them.             *)
(*                                                                         *)
(* A handler is a coroutine: it runs without interruption from one await   *)
(* of a network call to the next.  Each task has a program counter; the    *)
(* variable running names the task that holds the event loop (0 when every *)
(* task is suspended, idle or finished).                                   *)
(***************************************************************************)
EXTENDS Integers, Sequences, FiniteSets, TLC

VARIABLES
    course_code_to_id_cache,   \* core.cache: course code -> course id
    id_to_course_code_cache,   \* core.cache: course id -> course code
    task,                      \* per task: pc, arguments, locals, requests, result
    running,                   \* the task holding the event loop, or 0
    history                    \* ghost: cache at the last quiescent point and the writes since

vars == <<course_code_to_id_cache, id_to_course_code_cache, task, running, history>>

(***************************************************************************)
(* Bounds of the model.                                                    *)
(***************************************************************************)
MaxCourses == 2        \* records in one course listing
MaxPages == 6          \* records in one page listing
MaxModules == 12       \* records in one module listing
NumTasks == 2          \* concurrent invocations in SpecConc

(***************************************************************************)
(* Python values.  A JSON field is None, a string, an integer or a         *)
(* boolean; a record (dict) is a function from the keys it carries.        *)
(***************************************************************************)
PyNone == [t |-> "none"]
PyStr(s) == [t |-> "str", v |-> s]
PyInt(n) == [t |-> "int", v |-> n]
PyBool(b) == [t |-> "bool", v |-> b]

EmptyDict == [k \in {} |-> PyNone]

\* dict.get(key, default)
Get(d, key, default) == IF key \in DOMAIN d THEN d[key] ELSE default

\* bool(v)
Truthy(v) ==
    CASE v.t = "none" -> FALSE
      [] v.t = "str" -> v.v # ""
      [] v.t = "int" -> v.v # 0
      [] v.t = "bool" -> v.v

Digit == <<"0", "1", "2", "3", "4", "5", "6", "7", "8", "9">>

RECURSIVE IntStr(_)
IntStr(n) == IF n < 10 THEN Digit[n + 1] ELSE IntStr(n \div 10) \o Digit[(n % 10) + 1]

\* str(v), also what an f-string puts for {v}
Str(v) ==
    CASE v.t = "none" -> "None"
      [] v.t = "str" -> v.v
      [] v.t = "int" -> IntStr(v.v)
      [] v.t = "bool" -> IF v.v THEN "True" ELSE "False"

\* A network result: a list of records, or a dict (one record, or an error).
List(s) == [list |-> s]
Dict(d) == [dict |-> d]
IsList(r) == "list" \in DOMAIN r
IsDict(r) == "dict" \in DOMAIN r
ErrorResult(msg) == Dict([error |-> PyStr(msg)])

\* the sequences over S of length at most n
SeqsUpTo(S, n) == UNION {[1..k -> S] : k \in 0..n}

Min(a, b) == IF a < b THEN a ELSE b

(***************************************************************************)
(* Strings that the code compares or reformats.  Python orders strings by  *)
(* code point; StrRank gives that order on the strings the model uses.     *)
(***************************************************************************)
StrRank(s) ==
    CASE s = "" -> 0
      [] s = "2024-01-10T00:00:00Z" -> 1
      [] s = "2024-02-20T00:00:00Z" -> 2
      [] s = "2024-03-30T00:00:00Z" -> 3
      [] s = "Assignment" -> 4
      [] s = "Page" -> 5
      [] s = "Unknown" -> 6

\* core.dates.format_date: "N/A" for an absent or null date, else a display form
format_date(v) ==
    IF v.t = "none" THEN "N/A"
    ELSE CASE v.v = "2024-01-10T00:00:00Z" -> "Jan 10, 2024"
           [] v.v = "2024-02-20T00:00:00Z" -> "Feb 20, 2024"
           [] v.v = "2024-03-30T00:00:00Z" -> "Mar 30, 2024"

(***************************************************************************)
(* Tasks and the event loop.                                               *)
(***************************************************************************)
NoResult == [kind |-> "none", lines |-> <<>>]
Returned(lines) == [kind |-> "returned", lines |-> lines]
Raised(exc) == [kind |-> "raised", lines |-> <<<<exc>>>>]

IdleTask ==
    [pc |-> "idle", handler |-> "", args |-> EmptyDict, course_id |-> PyNone,
     courses |-> <<>>, i |-> 0, response |-> EmptyDict,
     pages |-> [unset |-> TRUE], recent |-> <<>>, modules |-> <<>>,
     total_items |-> 0, item_type_counts |-> EmptyDict, sections |-> <<>>,
     log |-> <<>>, outstanding |-> 0, received |-> [list |-> <<>>],
     result |-> NoResult]

\* The labels at which a coroutine is suspended in an await of a network call.
AwaitLabels ==
    {"lc_await", "rs_await", "gd_await", "ov_await_course", "ov_await_pages",
     "ov_await_modules", "ov_await_items", "cc_await"}

YieldsBetweenWrites(label) ==
    label \in AwaitLabels \cup {"lc_write_i2c", "gd_write_i2c"}

\* TRUE when a task at this label has handed the event loop back.
Yields(label) == label \in AwaitLabels

\* Task t may take the step that starts at label.
CanRun(t, label) ==
    /\ task[t].pc = label
    /\ \/ running = t
       \/ running = 0 /\ (Yields(label) \/ label = "idle")

\* Who holds the event loop once task t has reached label.
Holder(t, label) == IF Yields(label) \/ label = "done" THEN 0 ELSE t

Issue(tk, req) == [tk EXCEPT !.log = Append(@, req), !.outstanding = @ + 1]
Complete(tk, r) == [tk EXCEPT !.outstanding = @ - 1, !.received = r]
Finish(tk, res) == [tk EXCEPT !.pc = "done", !.result = res]

Request(path, params) == [path |-> path, params |-> params]

\* ghost: one cache write, tagged with the task and the stretch of code it ran in
Wrote(t, map, k, v) ==
    history' = [history EXCEPT !.writes =
        Append(@, [unit |-> <<t, Len(task[t].log)>>, map |-> map, k |-> k, v |-> v])]

\* course_code_to_id_cache[code] = id
SetCodeToId(t, code, id) ==
    /\ course_code_to_id_cache' = (code :> id) @@ course_code_to_id_cache
    /\ UNCHANGED id_to_course_code_cache
    /\ Wrote(t, "c2i", code, id)

\* id_to_course_code_cache[id] = code
SetIdToCode(t, id, code) ==
    /\ id_to_course_code_cache' = (id :> code) @@ id_to_course_code_cache
    /\ UNCHANGED course_code_to_id_cache
    /\ Wrote(t, "i2c", id, code)

NoCacheWrite == UNCHANGED <<course_code_to_id_cache, id_to_course_code_cache, history>>

(***************************************************************************)
(* list_courses                                                            *)
(***************************************************************************)
ListParamsAlwaysTeacher(include_concluded, include_all) ==
    ("include[]" :> <<"term", "teachers", "total_students">>) @@ ("per_page" :> 100)
        @@ ("enrollment_type" :> "teacher")
        @@ ("state[]" :> IF include_concluded THEN <<"available", "completed">>
                         ELSE <<"available">>)

\* lines 23-34
ListParams(include_concluded, include_all) ==
    LET base == ("include[]" :> <<"term", "teachers", "total_students">>)
                    @@ ("per_page" :> 100)
        enrolled == IF ~include_all
                    THEN ("enrollment_type" :> "teacher") @@ base
                    ELSE base
    IN  IF include_concluded
        THEN ("state[]" :> <<"available", "completed">>) @@ enrolled
        ELSE ("state[]" :> <<"available">>) @@ enrolled

list_courses_call(t, include_concluded, include_all) ==
    /\ CanRun(t, "idle")
    /\ task' = [task EXCEPT ![t] =
            Issue([IdleTask EXCEPT !.pc = "lc_await", !.handler = "list_courses",
                                   !.args = [include_concluded |-> include_concluded,
                                             include_all |-> include_all]],
                  Request(<<"/courses">>, ListParams(include_concluded, include_all)))]
    /\ running' = Holder(t, "lc_await")
    /\ NoCacheWrite

IsError(r) == IsDict(r) /\ "error" \in DOMAIN r.dict

FetchErrorBare(courses) == <<"Error: ", Str(courses.dict.error)>>

\* line 39
FetchError(courses) == <<"Error fetching courses: ", Str(courses.dict.error)>>

\* lines 38-39
list_courses_error(t, courses) ==
    /\ CanRun(t, "lc_await")
    /\ IsError(courses)
    /\ task' = [task EXCEPT ![t] =
            Finish(Complete(@, courses), Returned(<<FetchError(courses)>>))]
    /\ running' = Holder(t, "done")
    /\ NoCacheWrite

\* lines 41-42
list_courses_empty(t, courses) ==
    /\ CanRun(t, "lc_await")
    /\ ~IsError(courses)
    /\ IsList(courses) /\ Len(courses.list) = 0
    /\ task' = [task EXCEPT ![t] =
            Finish(Complete(@, courses), Returned(<<<<"No courses found.">>>>))]
    /\ running' = Holder(t, "done")
    /\ NoCacheWrite

list_courses_fetched(t, courses) ==
    /\ CanRun(t, "lc_await")
    /\ ~IsError(courses)
    /\ IsList(courses) /\ Len(courses.list) > 0
    /\ task' = [task EXCEPT ![t] =
            [Complete(@, courses) EXCEPT !.pc = "lc_loop", !.courses = courses.list, !.i = 1]]
    /\ running' = Holder(t, "lc_loop")
    /\ NoCacheWrite

\* lines 46-47
CacheId(course) == PyStr(Str(Get(course, "id", PyNone)))
CacheCode(course) == Get(course, "course_code", PyNone)

\* line 49
CachesCourse(course) == Truthy(CacheCode(course)) /\ Truthy(CacheId(course))

\* line 50
list_courses_cache_code(t) ==
    /\ CanRun(t, "lc_loop")
    /\ task[t].i <= Len(task[t].courses)
    /\ LET course == task[t].courses[task[t].i]
       IN  /\ CachesCourse(course)
           /\ SetCodeToId(t, CacheCode(course), CacheId(course))
    /\ task' = [task EXCEPT ![t].pc = "lc_write_i2c"]
    /\ running' = Holder(t, "lc_write_i2c")

\* line 51
list_courses_cache_id(t) ==
    /\ CanRun(t, "lc_write_i2c")
    /\ LET course == task[t].courses[task[t].i]
       IN  SetIdToCode(t, CacheId(course), CacheCode(course))
    /\ task' = [task EXCEPT ![t].pc = "lc_loop", ![t].i = @ + 1]
    /\ running' = Holder(t, "lc_loop")

list_courses_skip(t) ==
    /\ CanRun(t, "lc_loop")
    /\ task[t].i <= Len(task[t].courses)
    /\ ~CachesCourse(task[t].courses[task[t].i])
    /\ task' = [task EXCEPT ![t].i = @ + 1]
    /\ running' = Holder(t, "lc_loop")
    /\ NoCacheWrite

\* lines 53-62
CourseBlock(course) ==
    <<"Code: ", Str(Get(course, "course_code", PyStr("No code"))),
      "Name: ", Str(Get(course, "name", PyStr("Unnamed course"))),
      "ID: ", Str(Get(course, "id", PyNone))>>

list_courses_render(t) ==
    /\ CanRun(t, "lc_loop")
    /\ task[t].i > Len(task[t].courses)
    /\ task' = [task EXCEPT ![t] =
            Finish(@, Returned(<<<<"Courses:">>>> \o
                [k \in 1..Len(task[t].courses) |-> CourseBlock(task[t].courses[k])]))]
    /\ running' = Holder(t, "done")
    /\ NoCacheWrite

(***************************************************************************)
(* core.cache.get_course_id: a numeric identifier is returned unchanged; a *)
(* course code is looked up in the cache and, on a miss, on the server.    *)
(***************************************************************************)
IsNumeric(identifier) == identifier.t = "int"

CourseRequest(course_id) == Request(<<"/courses/", Str(course_id)>>, EmptyDict)

\* The handler goes on with its course request once the id is known.
Resolved(tk, course_id) ==
    Issue([tk EXCEPT !.course_id = course_id,
                     !.pc = IF tk.handler = "get_course_details"
                            THEN "gd_await" ELSE "ov_await_course"],
          CourseRequest(course_id))

\* The handler's first stretch: up to its first network call.
Started(handler, args) ==
    LET tk == [IdleTask EXCEPT !.handler = handler, !.args = args]
        identifier == args.course_identifier
    IN  IF IsNumeric(identifier)
        THEN Resolved(tk, identifier)
        ELSE IF identifier \in DOMAIN course_code_to_id_cache
        THEN Resolved(tk, course_code_to_id_cache[identifier])
        ELSE Issue([tk EXCEPT !.pc = "rs_await"],
                   Request(<<"/courses">>, [per_page |-> 100]))

\* The remote lookup found the course: both directions are stored.
get_course_id_found(t, id) ==
    /\ CanRun(t, "rs_await")
    /\ LET code == task[t].args.course_identifier
       IN  /\ course_code_to_id_cache' = (code :> id) @@ course_code_to_id_cache
           /\ id_to_course_code_cache' = (id :> code) @@ id_to_course_code_cache
           /\ history' = [history EXCEPT !.writes = @ \o
                   <<[unit |-> <<t, Len(task[t].log)>>, map |-> "c2i", k |-> code, v |-> id],
                     [unit |-> <<t, Len(task[t].log)>>, map |-> "i2c", k |-> id, v |-> code]>>]
    /\ task' = [task EXCEPT ![t] = Resolved(Complete(@, Dict([id |-> id])), id)]
    /\ running' = 0

get_course_id_not_found(t) ==
    /\ CanRun(t, "rs_await")
    /\ task' = [task EXCEPT ![t] =
            Finish(Complete(@, List(<<>>)),
                   [kind |-> "not_found",
                    lines |-> <<<<"NotFoundError: ", Str(task[t].args.course_identifier)>>>>])]
    /\ running' = Holder(t, "done")
    /\ NoCacheWrite

(***************************************************************************)
(* get_course_details                                                      *)
(***************************************************************************)
get_course_details_call(t, course_identifier) ==
    /\ CanRun(t, "idle")
    /\ task' = [task EXCEPT ![t] =
            Started("get_course_details", [course_identifier |-> course_identifier])]
    /\ running' = 0
    /\ NoCacheWrite

\* lines 76-77
get_course_details_error(t, response) ==
    /\ CanRun(t, "gd_await")
    /\ IsError(response)
    /\ task' = [task EXCEPT ![t] =
            Finish(Complete(@, response),
                   Returned(<<<<"Error fetching course details: ",
                                Str(response.dict.error)>>>>))]
    /\ running' = Holder(t, "done")
    /\ NoCacheWrite

\* line 80
CachesResponse(response) == "id" \in DOMAIN response /\ "course_code" \in DOMAIN response

\* lines 84-97
CourseDetails(response, course_identifier) ==
    <<<<"Course Details for ", Str(Get(response, "course_code", course_identifier)), ":">>,
      <<"Code: ", Str(Get(response, "course_code", PyStr("N/A")))>>,
      <<"Name: ", Str(Get(response, "name", PyStr("N/A")))>>,
      <<"Start Date: ", format_date(Get(response, "start_at", PyNone))>>,
      <<"End Date: ", format_date(Get(response, "end_at", PyNone))>>,
      <<"Time Zone: ", Str(Get(response, "time_zone", PyStr("N/A")))>>,
      <<"Default View: ", Str(Get(response, "default_view", PyStr("N/A")))>>,
      <<"Public: ", Str(Get(response, "is_public", PyBool(FALSE)))>>,
      <<"Blueprint: ", Str(Get(response, "blueprint", PyBool(FALSE)))>> >>

\* line 81
get_course_details_cache_code(t, response) ==
    /\ CanRun(t, "gd_await")
    /\ ~IsError(response)
    /\ CachesResponse(response.dict)
    /\ SetCodeToId(t, response.dict.course_code, PyStr(Str(response.dict.id)))
    /\ task' = [task EXCEPT ![t] =
            [Complete(@, response) EXCEPT !.pc = "gd_write_i2c", !.response = response.dict]]
    /\ running' = Holder(t, "gd_write_i2c")

\* line 82, then lines 84-97
get_course_details_cache_id(t) ==
    /\ CanRun(t, "gd_write_i2c")
    /\ LET response == task[t].response
       IN  /\ SetIdToCode(t, PyStr(Str(response.id)), response.course_code)
           /\ task' = [task EXCEPT ![t] =
                   Finish(@, Returned(CourseDetails(response,
                                                    task[t].args.course_identifier)))]
    /\ running' = Holder(t, "done")

get_course_details_render(t, response) ==
    /\ CanRun(t, "gd_await")
    /\ ~IsError(response)
    /\ ~CachesResponse(response.dict)
    /\ task' = [task EXCEPT ![t] =
            Finish(Complete(@, response),
                   Returned(CourseDetails(response.dict, task[t].args.course_identifier)))]
    /\ running' = Holder(t, "done")
    /\ NoCacheWrite

(***************************************************************************)
(* get_course_content_overview                                             *)
(***************************************************************************)
ModuleCap == 10

\* core.cache.get_course_code, then lines 193-196: the header and the sections
Overview(tk, code) ==
    LET course_display == IF Truthy(code) THEN code ELSE tk.args.course_identifier
    IN  Returned(<<<<"Content Overview for Course ", Str(course_display), ":">>>>
                 \o tk.sections)

\* line 193: the code comes from the cache or, on a miss, from the server
Conclude(tk) ==
    LET id == PyStr(Str(tk.course_id))
    IN  IF id \in DOMAIN id_to_course_code_cache
        THEN Finish(tk, Overview(tk, id_to_course_code_cache[id]))
        ELSE Issue([tk EXCEPT !.pc = "cc_await"], Request(<<"/courses">>, [per_page |-> 100]))

\* lines 151-152
AfterPages(tk) ==
    IF tk.args.include_modules
    THEN Issue([tk EXCEPT !.pc = "ov_await_modules"],
               Request(<<"/courses/", Str(tk.course_id), "/modules">>, [per_page |-> 100]))
    ELSE Conclude(tk)

\* lines 122-123
AfterCourse(tk) ==
    IF tk.args.include_pages
    THEN Issue([tk EXCEPT !.pc = "ov_await_pages"],
               Request(<<"/courses/", Str(tk.course_id), "/pages">>, [per_page |-> 100]))
    ELSE AfterPages(tk)

get_course_content_overview_call(t, course_identifier, include_pages, include_modules) ==
    /\ CanRun(t, "idle")
    /\ task' = [task EXCEPT ![t] =
            Started("get_course_content_overview",
                    [course_identifier |-> course_identifier,
                     include_pages |-> include_pages,
                     include_modules |-> include_modules])]
    /\ running' = 0
    /\ NoCacheWrite

\* lines 116-119
overview_course(t, course_response) ==
    /\ CanRun(t, "ov_await_course")
    /\ LET tk == Complete(task[t], course_response)
           named == IF IsError(course_response) THEN tk
                    ELSE [tk EXCEPT !.sections = Append(@,
                            <<"Course: ", Str(Get(course_response.dict, "name",
                                                  PyStr("Unknown Course")))>>)]
           next == AfterCourse(named)
       IN  /\ task' = [task EXCEPT ![t] = next]
           /\ running' = Holder(t, next.pc)
    /\ NoCacheWrite

\* line 125
IsPublished(p) == Truthy(Get(p, "published", PyBool(FALSE)))
\* line 127
IsFrontPage(p) == Truthy(Get(p, "front_page", PyBool(FALSE)))
\* line 141
UpdatedKey(p) == Get(p, "updated_at", PyStr(""))

KeyAbove(p, q) == StrRank(UpdatedKey(p).v) > StrRank(UpdatedKey(q).v)

\* sorted(..., reverse=True): descending, equal keys in their original order
RECURSIVE SortedByUpdated(_)
SortedByUpdated(ps) ==
    IF ps = <<>> THEN <<>>
    ELSE LET x == Head(ps)
             rest == SortedByUpdated(Tail(ps))
         IN  SelectSeq(rest, LAMBDA q : KeyAbove(q, x)) \o <<x>>
                 \o SelectSeq(rest, LAMBDA q : ~KeyAbove(q, x))

\* sorted() compares the keys of two or more pages: None is not comparable
SortRaises(ps) == Len(ps) >= 2 /\ \E k \in 1..Len(ps) : UpdatedKey(ps[k]).t = "none"

\* line 143
RecentPages(published_pages) ==
    SubSeq(SortedByUpdated(published_pages), 1, Min(5, Len(published_pages)))

\* lines 129-146
PagesSummary(pages) ==
    LET published_pages == SelectSeq(pages, IsPublished)
        unpublished_pages == SelectSeq(pages, LAMBDA p : ~IsPublished(p))
        front_pages == SelectSeq(pages, IsFrontPage)
        recent == RecentPages(published_pages)
    IN  <<<<"Pages Summary:">>,
          <<"  Total Pages: ", IntStr(Len(pages))>>,
          <<"  Published: ", IntStr(Len(published_pages))>>,
          <<"  Unpublished: ", IntStr(Len(unpublished_pages))>>,
          <<"  Front Pages: ", IntStr(Len(front_pages))>> >>
        \o (IF published_pages = <<>> THEN <<>>
            ELSE <<<<"Recent Published Pages:">>>> \o
                 [k \in 1..Len(recent) |->
                    <<"    ", Str(Get(recent[k], "title", PyStr("Untitled"))),
                      " (Updated: ", format_date(Get(recent[k], "updated_at", PyNone)),
                      ")">>])

\* line 124, false
overview_pages_failed(t, pages) ==
    /\ CanRun(t, "ov_await_pages")
    /\ ~IsList(pages)
    /\ LET next == AfterPages([Complete(task[t], pages) EXCEPT !.pages = pages])
       IN  /\ task' = [task EXCEPT ![t] = next]
           /\ running' = Holder(t, next.pc)
    /\ NoCacheWrite

\* lines 124-148
overview_pages(t, pages) ==
    /\ CanRun(t, "ov_await_pages")
    /\ IsList(pages)
    /\ LET tk == [Complete(task[t], pages) EXCEPT !.pages = pages]
           published_pages == SelectSeq(pages.list, IsPublished)
           next == IF SortRaises(published_pages)
                   THEN Finish(tk, Raised("TypeError"))
                   ELSE AfterPages([tk EXCEPT
                            !.recent = RecentPages(published_pages),
                            !.sections = @ \o PagesSummary(pages.list)])
       IN  /\ task' = [task EXCEPT ![t] = next]
           /\ running' = Holder(t, next.pc)
    /\ NoCacheWrite

ModulesToFetchUncapped(modules) == modules

ModulesToFetchBackwards(modules) ==
    LET n == Min(Len(modules), ModuleCap)
    IN  [k \in 1..n |-> modules[n + 1 - k]]

\* line 163: modules[:10]
ModulesToFetch(modules) == SubSeq(modules, 1, Min(Len(modules), ModuleCap))

\* lines 172-174
RECURSIVE Tally(_, _)
Tally(counts, items) ==
    IF items = <<>> THEN counts
    ELSE LET item_type == Get(Head(items), "type", PyStr("Unknown"))
         IN  Tally((item_type :> (Get(counts, item_type, 0) + 1)) @@ counts, Tail(items))

\* sorted(item_type_counts.items()): the keys are distinct, so the order is theirs
RECURSIVE SortedTypes(_)
SortedTypes(types) ==
    IF Cardinality(types) <= 1 THEN IF types = {} THEN <<>> ELSE <<CHOOSE ty \in types : TRUE>>
    ELSE LET least == CHOOSE ty \in types :
                        \A other \in types : StrRank(ty.v) <= StrRank(other.v)
         IN  <<least>> \o SortedTypes(types \ {least})

TypesRaise(counts) ==
    Cardinality(DOMAIN counts) >= 2 /\ \E ty \in DOMAIN counts : ty.t = "none"

\* lines 154-157, 176-188
ModulesSummary(tk) ==
    LET types == SortedTypes(DOMAIN tk.item_type_counts)
        first == SubSeq(tk.modules, 1, Min(3, Len(tk.modules)))
    IN  <<<<"Modules Summary:">>,
          <<"  Total Modules: ", IntStr(Len(tk.modules))>>,
          <<"  Total Items Analyzed: ", IntStr(tk.total_items)>> >>
        \o (IF types = <<>> THEN <<>>
            ELSE <<<<"  Item Types:">>>> \o
                 [k \in 1..Len(types) |->
                    <<"    ", Str(types[k]), ": ", IntStr(tk.item_type_counts[types[k]])>>])
        \o (IF tk.modules = <<>> THEN <<>>
            ELSE <<<<"Module Structure (first 3):">>>> \o
                 [k \in 1..Len(first) |->
                    <<"    ", Str(Get(first[k], "name", PyStr("Unnamed"))),
                      " (Status: ", Str(Get(first[k], "state", PyStr("unknown"))), ")">>])

\* lines 163-169 from module j on: the next module with an id is fetched; after
\* the last one the summary is written (lines 176-190)
RECURSIVE ItemsLoop(_, _)
ItemsLoop(tk, j) ==
    LET todo == ModulesToFetch(tk.modules)
    IN  IF j > Len(todo)
        THEN IF TypesRaise(tk.item_type_counts)
             THEN Finish(tk, Raised("TypeError"))
             ELSE Conclude([tk EXCEPT !.sections = @ \o ModulesSummary(tk)])
        ELSE LET module_id == Get(todo[j], "id", PyNone)
             IN  IF Truthy(module_id)
                 THEN Issue([tk EXCEPT !.pc = "ov_await_items", !.i = j],
                            Request(<<"/courses/", Str(tk.course_id), "/modules/",
                                      Str(module_id), "/items">>, [per_page |-> 100]))
                 ELSE ItemsLoop(tk, j + 1)

\* line 153, false
overview_modules_failed(t, modules) ==
    /\ CanRun(t, "ov_await_modules")
    /\ ~IsList(modules)
    /\ LET next == Conclude(Complete(task[t], modules))
       IN  /\ task' = [task EXCEPT ![t] = next]
           /\ running' = Holder(t, next.pc)
    /\ NoCacheWrite

\* lines 153-161
overview_modules(t, modules) ==
    /\ CanRun(t, "ov_await_modules")
    /\ IsList(modules)
    /\ LET next == ItemsLoop([Complete(task[t], modules) EXCEPT
                                 !.modules = modules.list, !.total_items = 0,
                                 !.item_type_counts = EmptyDict], 1)
       IN  /\ task' = [task EXCEPT ![t] = next]
           /\ running' = Holder(t, next.pc)
    /\ NoCacheWrite

\* line 170: only a list is counted
ItemsCounted(items) == IF IsList(items) THEN items.list ELSE <<>>

\* lines 170-174, then the loop goes on
overview_items(t, items) ==
    /\ CanRun(t, "ov_await_items")
    /\ LET tk == Complete(task[t], items)
           counted == ItemsCounted(items)
           next == ItemsLoop([tk EXCEPT
                                 !.total_items = @ + Len(counted),
                                 !.item_type_counts = Tally(@, counted)], tk.i + 1)
       IN  /\ task' = [task EXCEPT ![t] = next]
           /\ running' = Holder(t, next.pc)
    /\ NoCacheWrite

\* get_course_code: the remote refresh found the code; both directions are stored
get_course_code_found(t, code) ==
    /\ CanRun(t, "cc_await")
    /\ LET id == PyStr(Str(task[t].course_id))
       IN  /\ course_code_to_id_cache' = (code :> id) @@ course_code_to_id_cache
           /\ id_to_course_code_cache' = (id :> code) @@ id_to_course_code_cache
           /\ history' = [history EXCEPT !.writes = @ \o
                   <<[unit |-> <<t, Len(task[t].log)>>, map |-> "c2i", k |-> code, v |-> id],
                     [unit |-> <<t, Len(task[t].log)>>, map |-> "i2c", k |-> id, v |-> code]>>]
    /\ task' = [task EXCEPT ![t] =
            LET tk == Complete(@, Dict([course_code |-> code]))
            IN  Finish(tk, Overview(tk, code))]
    /\ running' = Holder(t, "done")

get_course_code_none(t) ==
    /\ CanRun(t, "cc_await")
    /\ task' = [task EXCEPT ![t] =
            LET tk == Complete(@, ErrorResult("Not Found"))
            IN  Finish(tk, Overview(tk, PyNone))]
    /\ running' = Holder(t, "done")
    /\ NoCacheWrite

(***************************************************************************)
(* The caller collects the results once no invocation is in flight.        *)
(***************************************************************************)
Return ==
    /\ \A t \in DOMAIN task : task[t].pc \in {"idle", "done"}
    /\ \E t \in DOMAIN task : task[t].pc = "done"
    /\ task' = [t \in DOMAIN task |-> IdleTask]
    /\ history' = [c2i |-> course_code_to_id_cache, i2c |-> id_to_course_code_cache,
                   writes |-> <<>>]
    /\ UNCHANGED <<course_code_to_id_cache, id_to_course_code_cache, running>>

(***************************************************************************)
(* What the server may answer.                                             *)
(***************************************************************************)
ErrorMessages == {"Unauthorized", "Not Found"}
Errors == {ErrorResult(m) : m \in ErrorMessages}

Course(id, code) == [id |-> PyInt(id), course_code |-> PyStr(code), name |-> PyStr("Intro")]

CourseRecords ==
    {Course(1, "A"), Course(2, "A"), Course(1, "B"),
     [course_code |-> PyStr("A")],
     [id |-> PyInt(2)],
     [id |-> PyInt(1), course_code |-> PyNone, name |-> PyNone]}

CourseLists == {List(s) : s \in SeqsUpTo(CourseRecords, MaxCourses)}
CourseResponses == {Dict(c) : c \in CourseRecords}
Identifiers == {PyInt(1), PyInt(2), PyStr("A"), PyStr("B")}
FoundIds == {PyStr("1"), PyStr("2")}

EmptyCache == [k \in {} |-> PyNone]

Init ==
    /\ course_code_to_id_cache = EmptyCache
    /\ id_to_course_code_cache = EmptyCache
    /\ task = [t \in {1} |-> IdleTask]
    /\ running = 0
    /\ history = [c2i |-> EmptyCache, i2c |-> EmptyCache, writes |-> <<>>]

Next ==
    \/ \E c, a \in BOOLEAN : list_courses_call(1, c, a)
    \/ \E r \in Errors : list_courses_error(1, r)
    \/ \E r \in CourseLists : list_courses_empty(1, r)
    \/ \E r \in CourseLists : list_courses_fetched(1, r)
    \/ list_courses_cache_code(1)
    \/ list_courses_cache_id(1)
    \/ list_courses_skip(1)
    \/ list_courses_render(1)
    \/ \E i \in Identifiers : get_course_details_call(1, i)
    \/ \E id \in FoundIds : get_course_id_found(1, id)
    \/ get_course_id_not_found(1)
    \/ \E r \in Errors : get_course_details_error(1, r)
    \/ \E r \in CourseResponses : get_course_details_cache_code(1, r)
    \/ get_course_details_cache_id(1)
    \/ \E r \in CourseResponses : get_course_details_render(1, r)
    \/ Return

Spec == Init /\ [][Next]_vars

(***************************************************************************)
(* The overview on its own: one task, every answer the server may give for *)
(* the course, its pages, its modules and each module's items.             *)
(***************************************************************************)
MaxPagesWithModules == 0   \* page records when the modules are fetched too

OverviewIdentifiers == {PyInt(1), PyStr("A")}
OverviewFoundIds == {PyStr("1")}
FoundCodes == {PyStr("A")}
OverviewCourseResponses ==
    {ErrorResult("Not Found"), Dict(Course(1, "A")), Dict([id |-> PyInt(1)])}

PageKinds ==
    {[published |-> PyBool(TRUE), updated_at |-> PyStr("2024-01-10T00:00:00Z"),
      front_page |-> PyBool(TRUE)],
     [published |-> PyBool(TRUE), updated_at |-> PyStr("2024-02-20T00:00:00Z")],
     [published |-> PyBool(FALSE), updated_at |-> PyStr("2024-03-30T00:00:00Z")],
     [published |-> PyBool(TRUE), untitled |-> PyBool(TRUE)],
     [published |-> PyBool(TRUE), updated_at |-> PyNone]}

\* The k-th page of a listing: its page_id and (unless the kind has none) its title.
Page(k, kind) ==
    IF "untitled" \in DOMAIN kind
    THEN [page_id |-> PyInt(k), published |-> kind.published]
    ELSE ("page_id" :> PyInt(k)) @@ ("title" :> PyStr("Page " \o IntStr(k))) @@ kind

PageLists(n) ==
    {List([k \in 1..Len(s) |-> Page(k, s[k])]) : s \in SeqsUpTo(PageKinds, n)}

Module(k) ==
    [id |-> PyInt(k), name |-> PyStr("Week " \o IntStr(k)), state |-> PyStr("active")]

\* A listing of n modules; the m-th (if any) carries no id, name or state.
ModuleList(n, m) ==
    List([k \in 1..n |-> IF k = m THEN [position |-> PyInt(k)] ELSE Module(k)])

\* every length with all ids present; a short and a long one with the 2nd id missing
ModuleLists ==
    {ModuleList(n, 0) : n \in 0..MaxModules}
        \cup {ModuleList(n, 2) : n \in {3, MaxModules}}

ItemLists ==
    {List(<<[title |-> PyStr("Syllabus")], [type |-> PyStr("Page")],
            [type |-> PyStr("Assignment")]>>),
     List(<<[type |-> PyNone]>>)}

WithModules(t) ==
    "include_modules" \in DOMAIN task[t].args /\ task[t].args.include_modules

AllPageLists == PageLists(MaxPages)
FewPageLists == PageLists(MaxPagesWithModules)

PageResponses(t) == IF WithModules(t) THEN FewPageLists ELSE AllPageLists

NextOverview ==
    \/ \E i \in OverviewIdentifiers, p, m \in BOOLEAN :
           get_course_content_overview_call(1, i, p, m)
    \/ \E id \in OverviewFoundIds : get_course_id_found(1, id)
    \/ get_course_id_not_found(1)
    \/ \E r \in OverviewCourseResponses : overview_course(1, r)
    \/ \E r \in Errors : overview_pages_failed(1, r)
    \/ /\ task[1].pc = "ov_await_pages"
       /\ \E r \in PageResponses(1) : overview_pages(1, r)
    \/ \E r \in Errors : overview_modules_failed(1, r)
    \/ \E r \in ModuleLists : overview_modules(1, r)
    \/ \E r \in ItemLists \cup {ErrorResult("Not Found")} : overview_items(1, r)
    \/ \E c \in FoundCodes : get_course_code_found(1, c)
    \/ get_course_code_none(1)
    \/ Return

SpecOverview == Init /\ [][NextOverview]_vars

(***************************************************************************)
(* Properties of list_courses and get_course_details (Spec).               *)
(***************************************************************************)
Tasks == DOMAIN task
Quiet == \A t \in Tasks : task[t].pc \in {"idle", "done"}
Lookup(cache, k) == IF k \in DOMAIN cache THEN cache[k] ELSE [t |-> "missing"]
Range(f) == {f[x] : x \in DOMAIN f}

\* C1: once every call has finished, the two caches mirror each other:
\* course_code_to_id_cache[code] = id exactly when id_to_course_code_cache[id] = code.
CachesMirror ==
    Quiet =>
        \A code \in DOMAIN course_code_to_id_cache \cup Range(id_to_course_code_cache) :
            \A id \in DOMAIN id_to_course_code_cache \cup Range(course_code_to_id_cache) :
                (Lookup(course_code_to_id_cache, code) = id)
                    <=> (Lookup(id_to_course_code_cache, id) = code)

ListCoursesDone(t) == task[t].pc = "done" /\ task[t].handler = "list_courses"

\* C2: when the course-list fetch gives an error result, list_courses returns
\* "Error fetching courses: " followed by the server's message, and does not raise.
FetchErrorIsReported ==
    \A t \in Tasks :
        (ListCoursesDone(t) /\ IsError(task[t].received)) =>
            /\ task[t].result.kind = "returned"
            /\ \E m \in ErrorMessages :
                /\ task[t].received = ErrorResult(m)
                /\ task[t].result.lines = <<<<"Error fetching courses: ", m>>>>

FetchErrorSeen ==
    \E t \in Tasks :
        /\ ListCoursesDone(t)
        /\ task[t].received = ErrorResult("Unauthorized")
        /\ task[t].result.kind = "returned"

Carries(course) ==
    /\ "id" \in DOMAIN course /\ course.id.t # "none"
    /\ "course_code" \in DOMAIN course /\ course.course_code.t # "none"

\* C7: after list_courses returns a listing, every returned record with an id and
\* a course_code is found in both caches under str(id) and its code, and the call
\* wrote no cache entry for an id that the server did not return.
ListingIsCached ==
    \A t \in Tasks :
        (ListCoursesDone(t) /\ IsList(task[t].received) /\ task[t].received.list # <<>>) =>
            LET courses == task[t].received.list
                returned_ids == {PyStr(Str(courses[k].id)) :
                                    k \in {j \in 1..Len(courses) :
                                             /\ "id" \in DOMAIN courses[j]
                                             /\ courses[j].id.t # "none"}}
            IN  /\ \A k \in 1..Len(courses) :
                       Carries(courses[k]) =>
                           /\ Lookup(course_code_to_id_cache, courses[k].course_code)
                                  = PyStr(Str(courses[k].id))
                           /\ Lookup(id_to_course_code_cache, PyStr(Str(courses[k].id)))
                                  = courses[k].course_code
                /\ \A k \in 1..Len(history.writes) :
                       LET w == history.writes[k]
                       IN  w.unit[1] = t =>
                               (IF w.map = "c2i" THEN w.v ELSE w.k) \in returned_ids

\* C8: the /courses request of list_courses carries state[] = ["available"], or
\* ["available", "completed"] when include_concluded, and enrollment_type =
\* "teacher" unless include_all, in which case it carries no enrollment_type.
ListFilters ==
    \A t \in Tasks :
        (task[t].handler = "list_courses" /\ task[t].log # <<>>) =>
            LET params == task[t].log[1].params
                args == task[t].args
            IN  /\ task[t].log[1].path = <<"/courses">>
                /\ params["state[]"] = IF args.include_concluded
                                       THEN <<"available", "completed">>
                                       ELSE <<"available">>
                /\ IF args.include_all
                   THEN "enrollment_type" \notin DOMAIN params
                   ELSE /\ "enrollment_type" \in DOMAIN params
                        /\ params["enrollment_type"] = "teacher"

ListFiltersSeen ==
    \E t \in Tasks :
        /\ task[t].handler = "list_courses"
        /\ task[t].log # <<>>
        /\ task[t].args.include_all
        /\ task[t].args.include_concluded
        /\ task[t].outstanding = 1

(***************************************************************************)
(* Properties of get_course_content_overview (SpecOverview).               *)
(***************************************************************************)
OverviewTask(t) == task[t].handler = "get_course_content_overview"
OverviewDone(t) == OverviewTask(t) /\ task[t].pc = "done"

\* C4: no handler fails because an optional field of a record is missing or
\* null: every finished call has returned a string, none has raised.
NoHandlerRaises ==
    \A t \in Tasks : task[t].pc = "done" => task[t].result.kind # "raised"

\* The lines of the "Recent Published Pages" section of a result.
RecentLines(lines) ==
    SelectSeq(lines, LAMBDA l : Len(l) = 5 /\ l[1] = "    " /\ l[3] = " (Updated: ")

PublishedFlag(p) == "published" \in DOMAIN p /\ p.published = PyBool(TRUE)
UpdatedRank(p) == IF "updated_at" \in DOMAIN p THEN StrRank(p.updated_at.v) ELSE 0
Position(p) == p.page_id.v

\* p is shown before q: a later update, or the same update and earlier in the listing
Before(p, q) ==
    \/ UpdatedRank(p) > UpdatedRank(q)
    \/ UpdatedRank(p) = UpdatedRank(q) /\ Position(p) < Position(q)

\* C6: for any page listing, the "Recent Published Pages" section lists exactly
\* min(5, number of published pages) pages, all published, those updated last,
\* latest first, pages with the same updated_at in the order of the listing.
RecentPagesListed ==
    \A t \in Tasks :
        (OverviewDone(t) /\ IsList(task[t].pages)) =>
            LET pages == task[t].pages.list
                published == {k \in 1..Len(pages) : PublishedFlag(pages[k])}
                recent == task[t].recent
                shown == {recent[k] : k \in 1..Len(recent)}
            IN  /\ task[t].result.kind = "returned"
                /\ Len(RecentLines(task[t].result.lines)) = Min(5, Cardinality(published))
                /\ Len(recent) = Min(5, Cardinality(published))
                /\ shown \subseteq {pages[k] : k \in published}
                /\ \A i, j \in 1..Len(recent) : i < j => Before(recent[i], recent[j])
                /\ \A k \in published :
                       pages[k] \notin shown => \A p \in shown : Before(p, pages[k])

ItemRequests(log) == SelectSeq(log, LAMBDA r : Len(r.path) = 5)

\* The place in the module listing of the module an items request names.
ModulePosition(modules, request) ==
    CHOOSE k \in 1..Len(modules) :
        "id" \in DOMAIN modules[k] /\ Str(modules[k].id) = request.path[4]

TypeOf(item) == IF "type" \in DOMAIN item THEN item.type ELSE PyStr("Unknown")
CountOf(counts, ty) == IF ty \in DOMAIN counts THEN counts[ty] ELSE 0
Occurrences(items, ty) == Cardinality({k \in 1..Len(items) : TypeOf(items[k]) = ty})

TypeLines(lines) ==
    SelectSeq(lines, LAMBDA l : Len(l) = 4 /\ l[1] = "    " /\ l[3] = ": ")

\* An items answer has just been handled for the module at place task[t].i.
ItemsHandled(t) ==
    /\ OverviewTask(t)
    /\ task[t].pc = "ov_await_items"
    /\ task'[t] # task[t]

\* A step in which a pages, modules or items answer that is no list is handled.
FailedFetchHandled(t) ==
    /\ OverviewTask(t)
    /\ task[t].pc \in {"ov_await_pages", "ov_await_modules", "ov_await_items"}
    /\ task'[t] # task[t]
    /\ ~IsList(task'[t].received)

FailedFetchStep(t) ==
    LET tk == task[t]
        after == task'[t]
    IN  FailedFetchHandled(t) =>
            /\ after.total_items = tk.total_items
            /\ after.item_type_counts = tk.item_type_counts
            /\ after.recent = tk.recent
            /\ after.result.kind # "raised"
            /\ tk.pc # "ov_await_items" => after.sections = tk.sections
            /\ tk.pc = "ov_await_pages" /\ tk.args.include_modules =>
                   after.pc = "ov_await_modules"
            /\ tk.pc = "ov_await_items" =>
                   /\ after.pc = "ov_await_items" => after.i > tk.i
                   /\ after.result.kind = "returned" =>
                          <<"  Total Items Analyzed: ", IntStr(tk.total_items)>>
                              \in Range(after.result.lines)

SectionsOfListedFetches(t) ==
    (OverviewDone(t) /\ task[t].result.kind = "returned") =>
        LET lines == Range(task[t].result.lines)
        IN  /\ IsList(task[t].pages) <=> <<"Pages Summary:">> \in lines
            /\ task[t].modules # <<>> => <<"Modules Summary:">> \in lines

\* C3: when the pages fetch, the modules fetch or one module's items fetch gives a
\* non-list result, the totals and the sections collected so far stay as they
\* are, the handler goes on to the next fetch or to the summary and does not
\* raise, and a returned overview holds the section of every fetch that gave a
\* list.
FailedFetchIsSkipped ==
    /\ [](\A t \in Tasks : SectionsOfListedFetches(t))
    /\ [][\A t \in Tasks : FailedFetchStep(t)]_vars

\* The overview raises in the step that handles a failed fetch only when that was
\* the last items fetch and the item types tallied before it cannot be sorted.
FailedFetchRaisesOnTypesOnly ==
    [][\A t \in Tasks :
          (FailedFetchHandled(t) /\ task'[t].result.kind = "raised") =>
              /\ task[t].pc = "ov_await_items"
              /\ TypesRaise(task[t].item_type_counts)]_vars

\* The last module's items fetch failed, and the overview came back with the page
\* section and the items of the other modules counted.
FailedFetchSkipped ==
    \E t \in Tasks :
        /\ OverviewDone(t)
        /\ task[t].result.kind = "returned"
        /\ IsError(task[t].received)
        /\ Len(ItemRequests(task[t].log)) >= 2
        /\ Len(task[t].log[Len(task[t].log)].path) = 5
        /\ task[t].total_items > 0
        /\ <<"Pages Summary:">> \in Range(task[t].result.lines)

FetchesWithinCap(t) ==
    OverviewTask(t) =>
        LET requests == ItemRequests(task[t].log)
        IN  /\ Len(requests) <= Min(Len(task[t].modules), 10)
            /\ \A k \in 1..Len(requests) :
                   ModulePosition(task[t].modules, requests[k]) <= 10

TotalsFromFetches(t) ==
    LET tk == task[t]
        after == task'[t]
        items == IF IsList(after.received) THEN after.received.list ELSE <<>>
    IN  IF ItemsHandled(t)
        THEN /\ tk.i <= 10
             /\ after.total_items = tk.total_items + Len(items)
             /\ \A ty \in DOMAIN tk.item_type_counts \cup DOMAIN after.item_type_counts
                       \cup {TypeOf(items[k]) : k \in 1..Len(items)} :
                    CountOf(after.item_type_counts, ty)
                        = CountOf(tk.item_type_counts, ty) + Occurrences(items, ty)
        ELSE \/ after.total_items = tk.total_items
                    /\ after.item_type_counts = tk.item_type_counts
             \/ after.total_items = 0 /\ after.item_type_counts = EmptyDict

ReportedTotals(t) ==
    (OverviewDone(t) /\ task[t].result.kind = "returned" /\ task[t].modules # <<>>) =>
        LET lines == task[t].result.lines
            types == TypeLines(lines)
        IN  /\ <<"  Total Items Analyzed: ", IntStr(task[t].total_items)>> \in Range(lines)
            /\ Len(types) = Cardinality(DOMAIN task[t].item_type_counts)
            /\ \A k \in 1..Len(types) :
                   \E ty \in DOMAIN task[t].item_type_counts :
                       /\ types[k][2] = Str(ty)
                       /\ types[k][4] = IntStr(task[t].item_type_counts[ty])
            /\ \A k \in 1..(Len(types) - 1) :
                   StrRank(types[k][2]) < StrRank(types[k + 1][2])

RequestStage(request) ==
    CASE Len(request.path) = 2 -> 1
      [] Len(request.path) = 3 /\ request.path[3] = "/pages" -> 2
      [] Len(request.path) = 3 /\ request.path[3] = "/modules" -> 3
      [] Len(request.path) = 5 -> 4
      [] OTHER -> 0

\* C9: one invocation never has two requests outstanding, and it issues them in
\* the order course, pages, modules, then the items of the modules in the order
\* of the module listing.
RequestsInSequence ==
    \A t \in Tasks :
        /\ task[t].outstanding \in {0, 1}
        /\ task[t].outstanding = 1 <=> task[t].pc \in AwaitLabels
        /\ OverviewTask(t) =>
               LET log == SelectSeq(task[t].log, LAMBDA r : RequestStage(r) > 0)
               IN  \A a, b \in 1..Len(log) :
                       a < b =>
                           IF RequestStage(log[b]) = 4 /\ RequestStage(log[a]) = 4
                           THEN ModulePosition(task[t].modules, log[a])
                                    < ModulePosition(task[t].modules, log[b])
                           ELSE RequestStage(log[a]) < RequestStage(log[b])

\* All four kinds of request were made, the third module's items being awaited.
RequestsInSequenceSeen ==
    \E t \in Tasks :
        /\ OverviewTask(t)
        /\ task[t].pc = "ov_await_items"
        /\ task[t].i = 3
        /\ task[t].args.include_pages
        /\ Len(task[t].log) >= 6

(***************************************************************************)
(* Several invocations of list_courses and get_course_details at once      *)
(* (SpecConc): they interleave where a task awaits a network call.         *)
(***************************************************************************)
ConcCourseLists ==
    {List(<<>>),
     List(<<Course(1, "A")>>),
     List(<<[id |-> PyInt(2)]>>),
     List(<<Course(1, "A"), Course(2, "B")>>),
     List(<<Course(2, "A"), Course(1, "B")>>)}
ConcCourseResponses == {Dict(Course(1, "A")), Dict(Course(2, "A")), Dict([id |-> PyInt(2)])}
ConcIdentifiers == {PyInt(1), PyStr("A")}
ConcErrors == {ErrorResult("Unauthorized")}

InitConc ==
    /\ course_code_to_id_cache = EmptyCache
    /\ id_to_course_code_cache = EmptyCache
    /\ task = [t \in 1..NumTasks |-> IdleTask]
    /\ running = 0
    /\ history = [c2i |-> EmptyCache, i2c |-> EmptyCache, writes |-> <<>>]

NextConc ==
    \/ \E t \in Tasks : list_courses_call(t, FALSE, FALSE)
    \/ \E t \in Tasks, r \in ConcErrors : list_courses_error(t, r)
    \/ \E t \in Tasks, r \in ConcCourseLists : list_courses_empty(t, r)
    \/ \E t \in Tasks, r \in ConcCourseLists : list_courses_fetched(t, r)
    \/ \E t \in Tasks : list_courses_cache_code(t)
    \/ \E t \in Tasks : list_courses_cache_id(t)
    \/ \E t \in Tasks : list_courses_skip(t)
    \/ \E t \in Tasks : list_courses_render(t)
    \/ \E t \in Tasks, i \in ConcIdentifiers : get_course_details_call(t, i)
    \/ \E t \in Tasks, id \in FoundIds : get_course_id_found(t, id)
    \/ \E t \in Tasks : get_course_id_not_found(t)
    \/ \E t \in Tasks, r \in ConcErrors : get_course_details_error(t, r)
    \/ \E t \in Tasks, r \in ConcCourseResponses : get_course_details_cache_code(t, r)
    \/ \E t \in Tasks : get_course_details_cache_id(t)
    \/ \E t \in Tasks, r \in ConcCourseResponses : get_course_details_render(t, r)
    \/ Return

SpecConc == InitConc /\ [][NextConc]_vars

\* The cache updates made since the last quiescent point: one per stretch of code
\* that wrote, each the sequence of its writes.
Updates == {history.writes[k].unit : k \in 1..Len(history.writes)}
WritesOf(u) == SelectSeq(history.writes, LAMBDA w : w.unit = u)

RECURSIVE Applied(_, _)
Applied(caches, writes) ==
    IF writes = <<>> THEN caches
    ELSE LET w == Head(writes)
         IN  Applied(IF w.map = "c2i"
                     THEN [caches EXCEPT !.c2i = (w.k :> w.v) @@ @]
                     ELSE [caches EXCEPT !.i2c = (w.k :> w.v) @@ @],
                     Tail(writes))

\* Some order of the updates left, each invocation's own updates in their order,
\* leads from caches to the caches now.
RECURSIVE SomeOrderReaches(_, _)
SomeOrderReaches(left, caches) ==
    IF left = {}
    THEN /\ caches.c2i = course_code_to_id_cache
         /\ caches.i2c = id_to_course_code_cache
    ELSE \E u \in left :
            /\ \A v \in left : v[1] = u[1] => u[2] <= v[2]
            /\ SomeOrderReaches(left \ {u}, Applied(caches, WritesOf(u)))

\* Every code -> id write has its id -> code write after it, in the same update.
PairsComplete ==
    \A k \in 1..Len(history.writes) :
        LET w == history.writes[k]
        IN  w.map = "c2i" =>
                \E j \in (k + 1)..Len(history.writes) :
                    LET x == history.writes[j]
                    IN  x.unit = w.unit /\ x.map = "i2c" /\ x.k = w.v /\ x.v = w.k

\* C10: whenever the event loop is free (every task is at a suspension point, idle
\* or finished), no pair is in course_code_to_id_cache without its mirror write
\* made, and the caches are those that the invocations' updates give when made
\* one after another in some order.
CacheSafeAtSuspension ==
    running = 0 =>
        /\ PairsComplete
        /\ SomeOrderReaches(Updates, [c2i |-> history.c2i, i2c |-> history.i2c])

\* Two invocations have both written the cache since the last quiescent point, one
\* of them a finished two-course listing, while a call is still awaiting the server.
InterleavedUpdatesSeen ==
    /\ running = 0
    /\ Cardinality({u[1] : u \in Updates}) >= 2
    /\ \E t \in Tasks : task[t].pc \in AwaitLabels
    /\ \E t \in Tasks : task[t].pc = "done" /\ task[t].handler = "list_courses"
                            /\ Len(task[t].courses) = 2

====
